---- MODULE Spec2Model ----
(***************************************************************************)
(* Model of goriffa: the RIFF container writer (writer/writer.go), the     *)
(* RIFF container reader (reader/reader.go) and the byte-accounting        *)
(* helpers they share (internal/io.go, internal/chunk.go).                 *)
(*                                                                         *)
(* Byte slices are sequences of 0..255.  Go errors are wrap chains:        *)
(* a sequence of sentinel names, outermost first; nil is the empty chain   *)
(* and errors.Is(err, t) holds when t occurs in the chain.  The writer's   *)
(* int64 size counter is kept as two 16-bit limbs [hi, lo] (value          *)
(* hi * 65536 + lo) so that values around math.MaxUint32 are exact.        *)
(***************************************************************************)
EXTENDS Integers, Sequences, FiniteSets, TLC

\* ------------------------------------------------------------------ bounds
MaxData == 2       \* longest chunk payload a caller passes
MaxChunks == 2     \* WriteChunk calls per run
MaxCloses == 2     \* Close calls per run
MaxFaults == 1     \* transport calls per run that do not succeed in full
MaxPartial == 1    \* most bytes a failing call accepts, unless it accepts them all
MaxReads == 2      \* reader calls per run
MaxSkew == 4       \* how far a declared size lies from the bytes that follow it
Slack == 9         \* how far below math.MaxUint32 an emulated size starts

\* --------------------------------------------------------------- constants
wordLength == 2
LengthChunkHeader == 8
Limb == 256 * 256

FourCCRIFF == <<82, 73, 70, 70>>
FourCCFormat == <<102, 109, 116, 32>>
FourCCData == <<100, 97, 116, 97>>
EmptyBytes == <<0, 0, 0, 0>>
TestFileType == <<10, 12, 14, 16>>
FileTypeWavefile == <<87, 65, 86, 69>>

\* errors (wrap chains)
NilError == <<>>
ErrClosed == <<"ErrClosed">>
ErrCorrupted == <<"ErrCorrupted">>
ErrShortWrite == <<"io.ErrShortWrite">>
ErrBufferUnderflow == <<"ErrBufferUnderflow">>
EOF == <<"io.EOF">>
TransportErr == <<"transport error">>
ErrSizeOverflow == <<"wrote too many bytes - size overflow", "ErrCorrupted">>
errCorruptedTooShort == <<"read fewer bytes than expected", "ErrCorrupted">>
errCorruptedReadOutOfBounds == <<"read outside file size - file must be corrupt", "ErrCorrupted">>

ErrorsIs(err, target) == \E i \in 1..Len(err) : err[i] = target[1]

\* ------------------------------------------------------- int64 in two limbs
I64(n) == [hi |-> n \div Limb, lo |-> n % Limb]
I64Add(a, b) == [hi |-> a.hi + b.hi + ((a.lo + b.lo) \div Limb), lo |-> (a.lo + b.lo) % Limb]
I64Gt(a, b) == a.hi > b.hi \/ (a.hi = b.hi /\ a.lo > b.lo)
I64Lt(a, b) == I64Gt(b, a)
MaxUint32 == [hi |-> Limb - 1, lo |-> Limb - 1]
I64Mod(a, m) == ((a.hi % m) * (Limb % m) + a.lo) % m
ToInt(a) == a.hi * Limb + a.lo
Uint32(a) == [hi |-> a.hi % Limb, lo |-> a.lo]

\* -------------------------------------------------------- internal/io.go
Min(a, b) == IF a < b THEN a ELSE b

Zeros(n) == [i \in 1..n |-> 0]

BadPaddedLength(n) == n

BadPaddedLengthUp(n) == I64Add(n, I64(1))

PaddedLength(n) ==
    LET mod == I64Mod(n, wordLength)
    IN  IF mod # 0 THEN I64Add(n, I64(wordLength - mod)) ELSE n

BadPad(b) == b

Pad(b) ==
    LET mod == Len(b) % wordLength
    IN  IF mod # 0 THEN b \o Zeros(wordLength - mod) ELSE b

BadLittleEndianUInt32Bytes(u) ==
    <<(u.hi \div 256) % 256, u.hi % 256, u.lo \div 256, u.lo % 256>>

LittleEndianUInt32Bytes(u) ==
    <<u.lo % 256, u.lo \div 256, u.hi % 256, (u.hi \div 256) % 256>>

LittleEndianUint32(b) == [hi |-> b[3] + 256 * b[4], lo |-> b[1] + 256 * b[2]]

\* internal/chunk.go
BadByteLength(c) == I64Add(I64(8), I64(Len(c.Data)))

ByteLength(c) == I64Add(I64(8), PaddedLength(I64(Len(c.Data))))

\* A transport call either succeeds in full (NoFault) or, for the call
\* numbered "at", accepts k bytes and reports err (nil: a short count).
NoFault == [at |-> 0, k |-> 0, err |-> NilError]

IsFault(f) == f.at # 0

\* The outcomes tried for a call given a slice: it fails after 0..MaxPartial
\* bytes or after the whole slice, or falls short at 0..MaxPartial bytes.
WriteFaults(content) ==
    {NoFault} \cup
    {[at |-> i, k |-> k, err |-> e] :
        i \in 1..Len(content), k \in 0..4 + MaxData, e \in {TransportErr, NilError}}

ValidFault(content, f) ==
    \/ f = NoFault
    \/ /\ f.at \in 1..Len(content)
       /\ f.k <= MaxPartial \/ f.k = Len(content[f.at])
       /\ f.k <= Len(content[f.at])
       /\ (f.err = NilError => f.k < Len(content[f.at]))

\* Write: the slices are written one by one; the first call that reports an
\* error or a short count ends the loop.  Result: total, err, the bytes that
\* reached the transport and the number of transport calls made.
RECURSIVE WriteFrom(_, _, _, _)
WriteFrom(content, f, i, acc) ==
    IF i > Len(content) THEN [total |-> Len(acc), err |-> NilError, bytes |-> acc, calls |-> i - 1]
    ELSE LET slice == content[i]
             n == IF f.at = i THEN f.k ELSE Len(slice)
             err == IF f.at = i THEN f.err ELSE NilError
             acc2 == acc \o SubSeq(slice, 1, n)
         IN  IF err # NilError THEN [total |-> Len(acc2), err |-> err, bytes |-> acc2, calls |-> i]
             ELSE IF n < Len(slice) THEN [total |-> Len(acc2), err |-> ErrShortWrite, bytes |-> acc2, calls |-> i]
             ELSE WriteFrom(content, f, i + 1, acc2)

BadWrite(content, f) ==
    LET r == WriteFrom(content, f, 1, <<>>)
    IN  [r EXCEPT !.err = IF @ = ErrShortWrite THEN <<"short write", "ErrCorrupted">> ELSE @]

Write(content, f) == WriteFrom(content, f, 1, <<>>)

\* WriteAt on a transport holding "cur": k bytes of b land at offset.
Overwrite(cur, b, offset) ==
    [i \in 1..Len(cur) |->
        IF i > offset /\ i <= offset + Len(b) THEN b[i - offset] ELSE cur[i]]

BadWriteAt(b, offset, f) ==
    LET n == IF f.at = 1 THEN f.k ELSE Len(b)
        err == IF f.at = 1 THEN f.err ELSE NilError
    IN  [n |-> n,
         err |-> IF n < Len(b) THEN ErrShortWrite ELSE err,
         bytes |-> SubSeq(b, 1, n)]

WriteAt(b, offset, f) ==
    LET n == IF f.at = 1 THEN f.k ELSE Len(b)
        err == IF f.at = 1 THEN f.err ELSE NilError
    IN  [n |-> n,
         err |-> IF err # NilError THEN err
                 ELSE IF n < Len(b) THEN ErrShortWrite ELSE NilError,
         bytes |-> SubSeq(b, 1, n)]

\* ------------------------------------------------------------------ inputs
FileTypes == {TestFileType, FileTypeWavefile}
Datas == {[i \in 1..n |-> i] : n \in 0..MaxData}
\* One chunk per payload length, the identifiers taken in turn.
Chunks ==
    {[Identifier |-> IF Len(d) % 2 = 0 THEN FourCCData ELSE FourCCFormat, Data |-> d] : d \in Datas}

\* ------------------------------------------------------------------- state
VARIABLES
    wstate,     \* "none": no writer yet; "open": New returned a writer; "failed": New returned an error
    fileType,   \* Writer.fileType
    fileSize,   \* Writer.fileSize (int64, two limbs)
    closed,     \* Writer.closed
    buf,        \* bytes held by the writer's transport
    nWrite,     \* sequential Write calls the transport has received
    patches,    \* positioned writes the transport has received: [b, offset]
    last,       \* the last API call: its arguments and what it returned
    written,    \* chunks whose WriteChunk returned no error, in order
    faults,     \* transport calls so far that did not succeed in full
    nChunks,    \* WriteChunk calls so far
    nCloses     \* Close calls so far

wvars == <<wstate, fileType, fileSize, closed, buf, nWrite, patches, last, written, faults, nChunks, nCloses>>

VARIABLES
    rstate,     \* "none": no reader yet; "open": New returned a reader; "failed": New returned an error
    reader,     \* the Reader: fileType, size, bytesRead
    rt,         \* the reader's transport: data, pos, kind
    rlast,      \* the last reader call and what it returned
    nReads      \* ReadChunk and ReadToEnd calls so far

rvars == <<rstate, reader, rt, rlast, nReads>>

NoCall == [op |-> "none", n |-> 0, err |-> NilError, fault |-> NoFault]

WInit ==
    /\ wstate = "none"
    /\ fileType = EmptyBytes
    /\ fileSize = I64(0)
    /\ closed = FALSE
    /\ buf = <<>>
    /\ nWrite = 0
    /\ patches = <<>>
    /\ last = NoCall
    /\ written = <<>>
    /\ faults = 0
    /\ nChunks = 0
    /\ nCloses = 0

FaultAllowed(f) == IsFault(f) => faults < MaxFaults

\* Writer.init: what New puts on the transport.
BadInitContent(ft) == <<FourCCRIFF, ft, EmptyBytes>>

InitContent(ft) == <<FourCCRIFF, EmptyBytes, ft>>

\* writer.New / Writer.init
New(ft, f) ==
    /\ wstate = "none"
    /\ LET content == InitContent(ft)
           r == Write(content, f)
       IN  /\ ValidFault(content, f)
           /\ FaultAllowed(f)
           /\ buf' = buf \o r.bytes
           /\ nWrite' = nWrite + r.calls
           /\ wstate' = IF r.err # NilError THEN "failed" ELSE "open"
           /\ fileType' = ft
           /\ fileSize' = IF r.err # NilError THEN fileSize ELSE I64(4)
           /\ last' = [op |-> "New", n |-> r.total, err |-> r.err, fault |-> f]
           /\ faults' = IF IsFault(f) THEN faults + 1 ELSE faults
    /\ UNCHANGED <<closed, patches, written, nChunks, nCloses>>
    /\ UNCHANGED rvars

\* WriteChunk's overflow check on the prospective size.
BadOverflows(newSize, size) == I64Gt(newSize, I64Add(MaxUint32, I64(1))) \/ I64Lt(newSize, size)

Overflows(newSize, size) == I64Gt(newSize, MaxUint32) \/ I64Lt(newSize, size)

\* WriteChunk's first test: the writer accepts chunks while it is not closed.
BadAcceptsChunks(isClosed) == TRUE

AcceptsChunks(isClosed) == ~isClosed

\* What WriteChunk hands to Write: identifier, length, padded payload.
ChunkContent(c) ==
    <<c.Identifier, LittleEndianUInt32Bytes(Uint32(I64(Len(c.Data)))), Pad(c.Data)>>

\* Writer.WriteChunk
WriteChunk(c, f) ==
    /\ wstate = "open"
    /\ nChunks < MaxChunks
    /\ nChunks' = nChunks + 1
    /\ IF AcceptsChunks(closed)
       THEN LET newSize == I64Add(fileSize, ByteLength(c))
            IN  IF Overflows(newSize, fileSize)
                THEN /\ f = NoFault
                     /\ last' = [op |-> "WriteChunk", c |-> c, n |-> 0, err |-> ErrSizeOverflow, fault |-> f]
                     /\ UNCHANGED <<fileSize, buf, nWrite, written, faults>>
                ELSE LET content == ChunkContent(c)
                         r == Write(content, f)
                     IN  /\ ValidFault(content, f)
                         /\ FaultAllowed(f)
                         /\ buf' = buf \o r.bytes
                         /\ nWrite' = nWrite + r.calls
                         /\ faults' = IF IsFault(f) THEN faults + 1 ELSE faults
                         /\ last' = [op |-> "WriteChunk", c |-> c, n |-> r.total, err |-> r.err, fault |-> f]
                         /\ IF r.err # NilError
                            THEN UNCHANGED <<fileSize, written>>
                            ELSE /\ fileSize' = I64Add(fileSize, I64(r.total))
                                 /\ written' = Append(written, c)
       ELSE /\ f = NoFault
            /\ last' = [op |-> "WriteChunk", c |-> c, n |-> 0, err |-> ErrClosed, fault |-> f]
            /\ UNCHANGED <<fileSize, buf, nWrite, written, faults>>
    /\ UNCHANGED <<wstate, fileType, closed, patches, nCloses>>
    /\ UNCHANGED rvars

\* Close marks the writer closed before it patches the size, so the flag
\* does not depend on the error the positioned write returns.
BadClosedAfterPatch(err) == err = NilError

ClosedAfterPatch(err) == TRUE

\* Writer.Close
Close(f) ==
    /\ wstate = "open"
    /\ nCloses < MaxCloses
    /\ nCloses' = nCloses + 1
    /\ IF ~closed
       THEN LET fileSizeBytes == LittleEndianUInt32Bytes(Uint32(fileSize))
                offset == Len(FourCCRIFF)
                r == WriteAt(fileSizeBytes, offset, f)
            IN  /\ ValidFault(<<fileSizeBytes>>, f)
                /\ FaultAllowed(f)
                /\ closed' = ClosedAfterPatch(r.err)
                /\ patches' = Append(patches, [b |-> fileSizeBytes, offset |-> offset, n |-> r.n,
                                               err |-> IF f.at = 1 THEN f.err ELSE NilError])
                /\ buf' = Overwrite(buf, r.bytes, offset)
                /\ faults' = IF IsFault(f) THEN faults + 1 ELSE faults
                /\ last' = [op |-> "Close", n |-> r.n, err |-> r.err, fault |-> f]
       ELSE /\ f = NoFault
            /\ last' = [op |-> "Close", n |-> 0, err |-> ErrClosed, fault |-> f]
            /\ UNCHANGED <<closed, patches, buf, faults>>
    /\ UNCHANGED <<wstate, fileType, fileSize, nWrite, written, nChunks>>
    /\ UNCHANGED rvars

\* ------------------------------------------------------------------ reader
\* The reader's transport: the bytes of a stream and a read position.  A
\* read of p bytes delivers what is left, up to p.  At the end of the
\* stream a read reports io.EOF; a zero-length read at the end reports
\* io.EOF on a bytes.Reader and nil on a bytes.Buffer or a file.  A scripted
\* transport (MockReader) answers its call numbered fault.at with at most
\* fault.k bytes and fault.err, whatever is left in the stream.
StreamKinds == {"Buffer", "Reader"}

TransportRead(t, p) ==
    LET left == Len(t.data) - t.pos
        call == t.calls + 1
        faulty == t.fault.at = call
        n == IF faulty THEN Min(t.fault.k, Min(p, left)) ELSE Min(p, left)
        t2 == [t EXCEPT !.pos = t.pos + n, !.calls = call]
        got == SubSeq(t.data, t.pos + 1, t.pos + n)
    IN  IF faulty
        THEN [n |-> n, err |-> t.fault.err, bytes |-> got, t |-> t2]
        ELSE IF left = 0 /\ (p > 0 \/ t.kind = "Reader")
        THEN [n |-> 0, err |-> EOF, bytes |-> <<>>, t |-> t2]
        ELSE [n |-> n, err |-> NilError, bytes |-> got, t |-> t2]

\* internal.Read: each slice is read in turn; the first error or short
\* count ends the loop.
RECURSIVE ReadFrom(_, _, _, _)
ReadFrom(t, lens, i, acc) ==
    IF i > Len(lens) THEN [total |-> Len(acc), err |-> NilError, bytes |-> acc, t |-> t]
    ELSE LET r == TransportRead(t, lens[i])
             acc2 == acc \o r.bytes
         IN  IF r.err # NilError THEN [total |-> Len(acc2), err |-> r.err, bytes |-> acc2, t |-> r.t]
             ELSE IF r.n < lens[i] THEN [total |-> Len(acc2), err |-> ErrBufferUnderflow, bytes |-> acc2, t |-> r.t]
             ELSE ReadFrom(r.t, lens, i + 1, acc2)

Read(t, lens) == ReadFrom(t, lens, 1, <<>>)

BadWrap(err) == errCorruptedTooShort

wrap(err) ==
    IF ErrorsIs(err, ErrBufferUnderflow) \/ ErrorsIs(err, EOF) THEN errCorruptedTooShort ELSE err

errNoRIFFHeader == <<"data does not begin with RIFF header", "ErrCorrupted">>
errImpossiblySmall == <<"impossibly small file size", "ErrCorrupted">>

\* New's two checks of the header it read.
BadIsRIFF(riffPrefix) == SubSeq(riffPrefix, 1, 3) = SubSeq(FourCCRIFF, 1, 3)
IsRIFF(riffPrefix) == riffPrefix = FourCCRIFF

BadTooSmall(size) == I64Lt(size, I64(3))
TooSmall(size) == I64Lt(size, I64(4))

\* reader.New on transport t: [err, rd] where rd is the Reader built.
NoReader == [fileType |-> EmptyBytes, size |-> I64(0), bytesRead |-> I64(0)]

ReaderNewResult(t) ==
    LET r == Read(t, <<4, 4, 4>>)
        riffPrefix == SubSeq(r.bytes, 1, 4)
        size == SubSeq(r.bytes, 5, 8)
        ft == SubSeq(r.bytes, 9, 12)
    IN  IF r.err # NilError THEN [err |-> wrap(r.err), rd |-> NoReader, t |-> r.t]
        ELSE IF ~IsRIFF(riffPrefix) THEN [err |-> errNoRIFFHeader, rd |-> NoReader, t |-> r.t]
        ELSE IF TooSmall(LittleEndianUint32(size)) THEN [err |-> errImpossiblySmall, rd |-> NoReader, t |-> r.t]
        ELSE [err |-> NilError,
              rd |-> [fileType |-> ft, size |-> LittleEndianUint32(size), bytesRead |-> I64(Len(ft))],
              t |-> r.t]

\* Reader.read: one transport read of p bytes, counted against the size.
\* readCounted is the part after the transport's Read returned r.
BadReadOutOfBounds(bytesRead, size) == I64Gt(bytesRead, I64Add(PaddedLength(size), I64(wordLength)))
ReadOutOfBounds(bytesRead, size) == I64Gt(bytesRead, PaddedLength(size))

readCounted(rd, r) ==
    LET rd2 == [rd EXCEPT !.bytesRead = I64Add(rd.bytesRead, I64(r.n))]
    IN  [n |-> r.n, bytes |-> r.bytes, rd |-> rd2, t |-> r.t,
         err |-> IF r.err # NilError THEN r.err
                 ELSE IF ReadOutOfBounds(rd2.bytesRead, rd.size) THEN errCorruptedReadOutOfBounds
                 ELSE NilError]

read(rd, t, p) == readCounted(rd, TransportRead(t, p))

NoChunk == [Identifier |-> EmptyBytes, Data |-> <<>>]

\* Reader.ReadChunk into the chunk "into": [n, err, chunk, rd, t, size].
\* ReadChunkData is the part after the payload read returned d, for the
\* header read h; ReadChunkHeader the part after the header read returned h.
\* chunkSize and dataLen are uint32 values and are kept in limbs; the
\* buffer of dataLen zero bytes is not built: chunk.Data holds the bytes
\* the transport delivered, and size the length of the Go slice, whose
\* remaining bytes are zero (size = Len(chunk.Data) on success).
ReadLen(dataLen) == IF dataLen.hi > 0 THEN Limb - 1 ELSE dataLen.lo

ReadChunkData(h, header, chunkSize, dataLen, d) ==
    [n |-> h.n + d.n,
     chunk |-> [Identifier |-> SubSeq(header, 1, 4),
                Data |-> SubSeq(d.bytes, 1, Min(d.n, ReadLen(chunkSize)))],
     size |-> chunkSize,
     rd |-> d.rd,
     t |-> d.t,
     err |-> IF d.err # NilError THEN d.err
             ELSE IF I64Lt(I64(d.n), dataLen) THEN errCorruptedTooShort
             ELSE NilError]

ReadChunkPayload(h, header, chunkSize, dataLen) ==
    ReadChunkData(h, header, chunkSize, dataLen, read(h.rd, h.t, ReadLen(dataLen)))

ReadChunkHeader(h, into) ==
    IF h.err # NilError
    THEN [n |-> h.n, err |-> h.err, chunk |-> into, size |-> I64(Len(into.Data)), rd |-> h.rd, t |-> h.t]
    ELSE IF h.n < LengthChunkHeader
    THEN [n |-> h.n, err |-> errCorruptedTooShort, chunk |-> into, size |-> I64(Len(into.Data)),
          rd |-> h.rd, t |-> h.t]
    ELSE LET header == h.bytes \o Zeros(LengthChunkHeader - h.n)
             chunkSize == LittleEndianUint32(SubSeq(header, 5, 8))
         IN  ReadChunkPayload(h, header, chunkSize, PaddedLength(chunkSize))

ReadChunkResult(rd, t, into) == ReadChunkHeader(read(rd, t, LengthChunkHeader), into)

\* Reader.ReadToEnd: [chunks, err, rd, t, n] (n: bytes the ReadChunk calls
\* reported).  ReadToEndStep is the loop body after ReadChunk returned r.
RECURSIVE ReadToEndFrom(_, _, _, _)
BadReadToEndStep(r, chunks, n) ==
    IF r.err # NilError
    THEN [chunks |-> IF r.n > 0 THEN Append(chunks, r.chunk) ELSE chunks,
          rd |-> r.rd, t |-> r.t, n |-> n + r.n,
          err |-> IF ErrorsIs(r.err, EOF) THEN NilError ELSE r.err]
    ELSE ReadToEndFrom(r.rd, r.t, Append(chunks, r.chunk), n + r.n)

ReadToEndStep(r, chunks, n) ==
    IF r.err # NilError
    THEN [chunks |-> chunks, rd |-> r.rd, t |-> r.t, n |-> n + r.n,
          err |-> IF ErrorsIs(r.err, EOF) THEN NilError ELSE r.err]
    ELSE ReadToEndFrom(r.rd, r.t, Append(chunks, r.chunk), n + r.n)

ReadToEndFrom(rd, t, chunks, n) == ReadToEndStep(ReadChunkResult(rd, t, NoChunk), chunks, n)

ReadToEndResult(rd, t) == ReadToEndFrom(rd, t, <<>>, 0)

NoStream == [data |-> <<>>, pos |-> 0, kind |-> "Buffer", calls |-> 0, fault |-> NoFault]

RInit ==
    /\ rstate = "none"
    /\ reader = NoReader
    /\ rt = NoStream
    /\ rlast = NoCall
    /\ nReads = 0

\* The stream the writer produced: every WriteChunk so far reached the
\* transport in full, so the transport holds whole chunks only.
Intact == I64(Len(buf)) = I64Add(I64(12 - 4), fileSize)

\* reader.New over the bytes of the writer's transport, once closed.
ReaderNew(kind) ==
    /\ rstate = "none"
    /\ wstate = "open"
    /\ closed
    /\ Intact
    /\ LET r == ReaderNewResult([data |-> buf, pos |-> 0, kind |-> kind, calls |-> 0, fault |-> NoFault])
       IN  /\ rstate' = IF r.err # NilError THEN "failed" ELSE "open"
           /\ reader' = r.rd
           /\ rt' = r.t
           /\ rlast' = [op |-> "New", n |-> 0, err |-> r.err, fault |-> NoFault]
    /\ UNCHANGED nReads
    /\ UNCHANGED wvars

\* Reader.ReadChunk
ReadChunk ==
    /\ rstate = "open"
    /\ nReads < MaxReads
    /\ nReads' = nReads + 1
    /\ LET r == ReadChunkResult(reader, rt, NoChunk)
       IN  /\ reader' = r.rd
           /\ rt' = r.t
           /\ rlast' = [op |-> "ReadChunk", n |-> r.n, err |-> r.err, fault |-> NoFault,
                       chunk |-> r.chunk, size |-> r.size]
    /\ UNCHANGED rstate
    /\ UNCHANGED wvars

\* Reader.ReadToEnd
ReadToEnd ==
    /\ rstate = "open"
    /\ nReads < MaxReads
    /\ nReads' = nReads + 1
    /\ LET r == ReadToEndResult(reader, rt)
       IN  /\ reader' = r.rd
           /\ rt' = r.t
           /\ rlast' = [op |-> "ReadToEnd", n |-> r.n, err |-> r.err, fault |-> NoFault, chunks |-> r.chunks]
    /\ UNCHANGED rstate
    /\ UNCHANGED wvars

vars == <<wvars, rvars>>

Init == WInit /\ RInit

\* The writer on a transport whose calls may fail or fall short.
Next ==
    \/ \E ft \in FileTypes : \E f \in WriteFaults(InitContent(ft)) : New(ft, f)
    \/ \E c \in Chunks : \E f \in WriteFaults(ChunkContent(c)) : WriteChunk(c, f)
    \/ \E f \in WriteFaults(<<EmptyBytes>>) : Close(f)

Spec == Init /\ [][Next]_vars

\* Write, then read back: the writer on a transport that accepts every
\* write in full, and a reader opened on the bytes once the writer is closed.
NextRoundTrip ==
    \/ \E ft \in FileTypes : New(ft, NoFault)
    \/ \E c \in Chunks : WriteChunk(c, NoFault)
    \/ Close(NoFault)
    \/ \E kind \in StreamKinds : ReaderNew(kind)
    \/ ReadChunk
    \/ ReadToEnd

SpecRoundTrip == Init /\ [][NextRoundTrip]_vars

\* A writer that has already put close to 4 GiB on its transport, emulated
\* as writer_overflow_test.go does: New succeeds on an empty buffer and the
\* size counter is then set just below math.MaxUint32.
InitOverflow ==
    /\ fileType = TestFileType
    /\ buf = FourCCRIFF \o EmptyBytes \o TestFileType
    /\ \E d \in 0..Slack : fileSize = [hi |-> Limb - 1, lo |-> Limb - 1 - d]
    /\ wstate = "open"
    /\ closed = FALSE
    /\ nWrite = 3
    /\ patches = <<>>
    /\ last = [op |-> "emulated", n |-> 0, err |-> NilError, fault |-> NoFault]
    /\ written = <<>>
    /\ faults = 0
    /\ nChunks = 0
    /\ nCloses = 0
    /\ RInit

NextOverflow ==
    \/ \E c \in Chunks : \E f \in WriteFaults(ChunkContent(c)) : WriteChunk(c, f)
    \/ \E f \in WriteFaults(<<EmptyBytes>>) : Close(f)

SpecOverflow == InitOverflow /\ [][NextOverflow]_vars

\* ------------------------------------------------- reader on given streams
\* reader_test.go chunk(): the bytes of a chunk on the wire.
ChunkBytes(c) ==
    c.Identifier \o LittleEndianUInt32Bytes(Uint32(I64(Len(c.Data)))) \o Pad(c.Data)

RECURSIVE StreamBody(_)
StreamBody(cs) == IF cs = <<>> THEN <<>> ELSE ChunkBytes(Head(cs)) \o StreamBody(Tail(cs))

\* reader_test.go header(), with the tag and the size left to the caller.
HeaderBytes(tag, size, ft) == tag \o LittleEndianUInt32Bytes(size) \o ft

ChunkSeqs == UNION {[1..k -> Chunks] : k \in 0..MaxChunks}

Prefixes(b) == {SubSeq(b, 1, n) : n \in 0..Len(b)}

FourCCRIFX == <<82, 73, 70, 88>>
RIFFTags == {FourCCRIFF, FourCCRIFX, EmptyBytes}
HeaderSizes == {I64(n) : n \in 0..5} \cup {[hi |-> 1, lo |-> 0], MaxUint32}

\* What a scripted transport may answer to one of its first calls: up to
\* MaxPartial bytes or a whole header's worth, with an error or without.
ReadFaults(calls) ==
    {[at |-> i, k |-> k, err |-> e] :
        i \in 1..calls, k \in (0..MaxPartial) \cup {LengthChunkHeader}, e \in {TransportErr, NilError}}

Stream(data, kind, f) == [data |-> data, pos |-> 0, kind |-> kind, calls |-> 0, fault |-> f]

\* Headers: any tag, size and file type, cut off anywhere, or whole on a
\* transport one of whose three reads is scripted.
HeaderStreams ==
    LET headers == {HeaderBytes(tag, size, ft) : tag \in RIFFTags, size \in HeaderSizes, ft \in FileTypes}
    IN  {Stream(d, kind, NoFault) : d \in UNION {Prefixes(h) : h \in headers}, kind \in StreamKinds}
        \cup {Stream(h, "Buffer", f) : h \in headers, f \in ReadFaults(3)}

\* Bodies: a valid header whose size is that of the bytes that follow, give
\* or take MaxSkew, and then chunks, cut off anywhere; or whole chunks with
\* the right size on a transport one of whose reads is scripted.
BodyStreams ==
    LET bodies == UNION {Prefixes(StreamBody(cs)) : cs \in ChunkSeqs}
        sized(b, skew) == HeaderBytes(FourCCRIFF, I64(4 + Len(b) + skew), TestFileType) \o b
        skews(b) == {k \in -MaxSkew..MaxSkew : Len(b) + k >= 0}
    IN  UNION {{Stream(sized(b, skew), kind, NoFault) : skew \in skews(b), kind \in StreamKinds} :
                  b \in bodies}
        \cup {Stream(sized(StreamBody(cs), 0), "Buffer", f) :
                cs \in ChunkSeqs, f \in ReadFaults(3 + 2 * MaxChunks + 1)}

Streams == HeaderStreams \cup BodyStreams

InitReader ==
    /\ WInit
    /\ rstate = "none"
    /\ reader = NoReader
    /\ rt \in Streams
    /\ rlast = NoCall
    /\ nReads = 0

\* reader.New on the stream given.
ReaderOpen ==
    /\ rstate = "none"
    /\ LET r == ReaderNewResult(rt)
       IN  /\ rstate' = IF r.err # NilError THEN "failed" ELSE "open"
           /\ reader' = r.rd
           /\ rt' = r.t
           /\ rlast' = [op |-> "New", n |-> 0, err |-> r.err, fault |-> NoFault]
    /\ UNCHANGED nReads
    /\ UNCHANGED wvars

NextReader ==
    \/ ReaderOpen
    \/ ReadChunk
    \/ ReadToEnd

SpecReader == InitReader /\ [][NextReader]_vars

\* ------------------------------------------------------------------ claims
RECURSIVE SumByteLength(_)
SumByteLength(cs) ==
    IF cs = <<>> THEN I64(0) ELSE I64Add(ByteLength(Head(cs)), SumByteLength(Tail(cs)))

\* The run wrote a file without any failure: every transport call succeeded
\* in full, every WriteChunk call returned no error and Close returned nil;
\* then a reader was opened on the bytes and ReadToEnd was its first call.
RoundTripDone ==
    /\ faults = 0
    /\ Len(written) = nChunks
    /\ rlast.op = "ReadToEnd"
    /\ nReads = 1

\* C1: after a failure-free write of any chunks and Close, ReadToEnd on the
\* resulting bytes returns no error and exactly the chunks written, in
\* order; FileType is the written file type and Size is 4 plus the sum of
\* the chunks' on-wire lengths.
C1_RoundTrip ==
    RoundTripDone =>
        /\ rlast.err = NilError
        /\ rlast.chunks = written
        /\ reader.fileType = fileType
        /\ reader.size = I64Add(I64(4), SumByteLength(written))
\* ---------------------------------------------------------- claim helpers
ChunkStep == nChunks' = nChunks + 1
CloseStep == nCloses' = nCloses + 1
TransportSame == buf' = buf /\ nWrite' = nWrite /\ patches' = patches

OnWire(c) == 8 + Len(c.Data) + (Len(c.Data) % 2)

RECURSIVE SumOnWire(_)
SumOnWire(cs) == IF cs = <<>> THEN 0 ELSE OnWire(Head(cs)) + SumOnWire(Tail(cs))

LE32(v) == <<v % 256, (v \div 256) % 256, (v \div 65536) % 256, (v \div 16777216) % 256>>

FirstPatchFailed == Len(patches) >= 1 /\ patches[1].err # NilError

\* C2: once Close has been called, every later Close returns Closed and
\* every later WriteChunk returns (0, Closed), and neither touches the
\* transport.
C2_CloseOneShot ==
    [][nCloses >= 1 =>
        /\ (CloseStep => last'.err = ErrClosed /\ TransportSame)
        /\ (ChunkStep => last'.n = 0 /\ last'.err = ErrClosed /\ TransportSame)]_vars

C2_Witness ==
    /\ nCloses = 2
    /\ last.op = "WriteChunk"
    /\ last.err = ErrClosed

\* C3: when the positioned write of the first Close fails, Close returns the
\* transport's error itself and the writer is closed; afterwards Close
\* returns Closed without another positioned write and WriteChunk returns
\* Closed.
C3_CloseFailureStillCloses ==
    /\ [](last.op = "Close" /\ nCloses = 1 /\ FirstPatchFailed =>
            last.err = patches[1].err /\ closed)
    /\ [][FirstPatchFailed =>
            /\ (CloseStep => last'.err = ErrClosed /\ TransportSame)
            /\ (ChunkStep => last'.err = ErrClosed)]_vars

C3_Witness ==
    /\ FirstPatchFailed
    /\ nCloses = 2
    /\ last.op = "Close"
    /\ last.err = ErrClosed

\* C4: a closed writer has issued exactly one positioned write: 4 bytes at
\* offset 4, the little-endian u32 of 4 plus the on-wire lengths of the
\* chunks whose WriteChunk succeeded.
C4_ClosePatchesSize ==
    closed =>
        /\ Len(patches) = 1
        /\ patches[1].offset = 4
        /\ patches[1].b = LE32(4 + SumOnWire(written))

C4_Witness ==
    /\ closed
    /\ Len(written) = 2
    /\ nChunks = 2

\* C5: on an open writer, a chunk that would take the running size past
\* 2^32 - 1 is rejected with (0, Corrupted); nothing reaches the transport
\* and the running size and the closed flag stay as they were.
C5_OverflowRejected ==
    [][(ChunkStep /\ ~closed /\ I64Gt(I64Add(fileSize, I64(OnWire(last'.c))), MaxUint32)) =>
        /\ last'.n = 0
        /\ ErrorsIs(last'.err, ErrCorrupted)
        /\ TransportSame
        /\ fileSize' = fileSize
        /\ closed' = closed]_vars

C5_Witness ==
    /\ last.op = "WriteChunk"
    /\ last.err = ErrSizeOverflow
    /\ Len(written) = 1
    /\ ~closed

\* C6: when the transport reports an error partway through WriteChunk, the
\* call returns that error with the count k of bytes that reached the
\* transport, and the running size has advanced by k.
C6_PartialWriteAdvancesSize ==
    [][(ChunkStep /\ last'.fault.err # NilError) =>
        /\ last'.err = last'.fault.err
        /\ last'.n = Len(buf') - Len(buf)
        /\ fileSize' = I64Add(fileSize, I64(last'.n))]_vars

ShortWriteInChunk ==
    /\ last.op = "WriteChunk"
    /\ IsFault(last.fault)
    /\ last.fault.err = NilError

\* C7 as stated: a short write during WriteChunk yields an error matching
\* Corrupted.
C7_ShortWriteCorrupted ==
    ShortWriteInChunk => ErrorsIs(last.err, ErrCorrupted)

\* C7 as amended: a short write during WriteChunk makes it fail with
\* io.ErrShortWrite, which does not match Corrupted.
C7_ShortWriteErrShortWrite ==
    ShortWriteInChunk => last.err = ErrShortWrite /\ ~ErrorsIs(last.err, ErrCorrupted)

C7_Witness ==
    /\ ShortWriteInChunk
    /\ last.n > 0

\* C8: a successful WriteChunk appends the identifier, the little-endian
\* u32 of the unpadded length and the data followed by one zero byte
\* exactly when the length is odd; it returns 8 plus the padded length and
\* the running size grows by the same amount.
C8_WriteChunkLayout ==
    [][(ChunkStep /\ last'.err = NilError) =>
        LET d == last'.c.Data
            pad == IF Len(d) % 2 = 1 THEN <<0>> ELSE <<>>
            n == 8 + Len(d) + Len(pad)
        IN  /\ buf' = buf \o last'.c.Identifier \o LE32(Len(d)) \o d \o pad
            /\ last'.n = n
            /\ fileSize' = I64Add(fileSize, I64(n))]_vars

C8_Witness ==
    /\ last.op = "WriteChunk"
    /\ last.err = NilError
    /\ Len(last.c.Data) % 2 = 1

\* C9: New writes "RIFF", four zero bytes and the file type, 12 bytes in
\* three sequential writes, and yields an open writer with running size 4;
\* when a write fails no writer is returned and the error is the
\* transport's own, not Corrupted.
C9_NewWritesHeader ==
    last.op = "New" =>
        /\ last.err = NilError =>
              /\ buf = FourCCRIFF \o <<0, 0, 0, 0>> \o fileType
              /\ nWrite = 3
              /\ wstate = "open"
              /\ ~closed
              /\ fileSize = I64(4)
        /\ last.err # NilError =>
              /\ wstate = "failed"
              /\ ~ErrorsIs(last.err, ErrCorrupted)
              /\ (last.fault.err # NilError => last.err = last.fault.err)

C9_Witness ==
    /\ last.op = "New"
    /\ last.fault.err = TransportErr
    /\ last.n = 5
    /\ wstate = "failed"

\* C10: while the writer is open and not closed the size field at offset 4
\* is the zero placeholder and no positioned write has been issued; only
\* Close issues a positioned write or changes bytes 4..7, and no WriteChunk
\* writes after the patch.
C10_TwoPhaseSize ==
    /\ [](wstate = "open" /\ ~closed => SubSeq(buf, 5, 8) = <<0, 0, 0, 0>> /\ patches = <<>>)
    /\ [][/\ (patches' # patches => CloseStep)
          /\ (wstate = "open" /\ SubSeq(buf', 5, 8) # SubSeq(buf, 5, 8) => CloseStep)
          /\ (patches # <<>> /\ ChunkStep => buf' = buf /\ nWrite' = nWrite)]_vars

C10_Witness ==
    /\ patches # <<>>
    /\ last.op = "WriteChunk"
    /\ Len(written) >= 1
    /\ SubSeq(buf, 5, 8) # <<0, 0, 0, 0>>

\* ----------------------------------------------------------- reader claims
\* The state right after reader.New returned.
Opened == rlast.op = "New"

\* None of New's three reads was scripted to fail or to fall short.
HeaderReadsWhole ==
    \/ rt.fault.at \notin 1..3
    \/ rt.fault.err = NilError /\ rt.fault.k >= 4

NoReaderReturned == rstate = "failed" /\ reader = NoReader

\* C11: reader.New on a stream of 12 bytes or more whose first four bytes
\* are not "RIFF" fails with an error matching Corrupted and returns no
\* reader, whatever size and file type follow.
C11_NoRIFFTagRejected ==
    (Opened /\ HeaderReadsWhole /\ Len(rt.data) >= 12 /\ SubSeq(rt.data, 1, 4) # FourCCRIFF) =>
        /\ ErrorsIs(rlast.err, ErrCorrupted)
        /\ NoReaderReturned

C11_Witness ==
    /\ Opened
    /\ HeaderReadsWhole
    /\ Len(rt.data) = 12
    /\ SubSeq(rt.data, 1, 4) = FourCCRIFX
    /\ I64Gt(LittleEndianUint32(SubSeq(rt.data, 5, 8)), I64(4))
    /\ rlast.err = errNoRIFFHeader
    /\ NoReaderReturned

\* C12: on a complete header tagged "RIFF", reader.New fails with Corrupted
\* for a declared size of 0..3 and succeeds for every size >= 4; on success
\* Size is the declared size, FileType is bytes 8..11 and 4 bytes count as
\* consumed.
C12_DeclaredSizeAtLeast4 ==
    (Opened /\ HeaderReadsWhole /\ Len(rt.data) >= 12 /\ SubSeq(rt.data, 1, 4) = FourCCRIFF) =>
        LET declared == LittleEndianUint32(SubSeq(rt.data, 5, 8))
        IN  IF I64Lt(declared, I64(4))
            THEN ErrorsIs(rlast.err, ErrCorrupted) /\ NoReaderReturned
            ELSE /\ rlast.err = NilError
                 /\ rstate = "open"
                 /\ reader.size = declared
                 /\ reader.fileType = SubSeq(rt.data, 9, 12)
                 /\ reader.bytesRead = I64(4)

C12_Witness ==
    /\ Opened
    /\ rstate = "open"
    /\ reader.size = MaxUint32
    /\ reader.fileType = FileTypeWavefile
    /\ reader.bytesRead = I64(4)

\* C13: while New reads the header, the end of the stream or a read that
\* falls short without an error gives an error matching Corrupted; any
\* other error of the transport is returned as it is and does not match
\* Corrupted; no reader is returned when New fails.
C13_HeaderReadFailure ==
    Opened =>
        /\ (rt.fault.at \notin 1..3 /\ Len(rt.data) < 12) =>
               ErrorsIs(rlast.err, ErrCorrupted) /\ NoReaderReturned
        /\ (rt.fault.at \in 1..3 /\ rt.fault.err = NilError /\ rt.fault.k < 4) =>
               ErrorsIs(rlast.err, ErrCorrupted) /\ NoReaderReturned
        /\ (rt.fault.at \in 1..3 /\ rt.fault.err = TransportErr) =>
               rlast.err = TransportErr /\ ~ErrorsIs(rlast.err, ErrCorrupted) /\ NoReaderReturned
        /\ rlast.err # NilError => NoReaderReturned

C13_Witness ==
    /\ Opened
    /\ rt.fault.at = 2
    /\ rt.fault.err = TransportErr
    /\ SubSeq(rt.data, 1, 4) = FourCCRIFF
    /\ rlast.err = TransportErr
    /\ NoReaderReturned

\* A step in which Reader.ReadChunk was called and returned.
ReadChunkStep == rlast'.op = "ReadChunk" /\ nReads' = nReads + 1

\* The eight bytes at the read position, and the size they declare.
NextHeader == SubSeq(rt.data, rt.pos + 1, rt.pos + LengthChunkHeader)
NextSize == LittleEndianUint32(SubSeq(NextHeader, 5, 8))

\* C14: a ReadChunk that succeeds on a chunk of declared size s returns the
\* four header bytes as identifier and the s payload bytes as Data (the pad
\* byte of an odd-sized chunk is consumed and not exposed), returns
\* 8 + s + (s mod 2), and adds that count to the bytes consumed.
C14_ReadChunkResult ==
    [][(ReadChunkStep /\ rlast'.err = NilError) =>
          LET got == rlast'.chunk
              s == Len(got.Data)
          IN  /\ got.Identifier = SubSeq(NextHeader, 1, 4)
              /\ I64(s) = NextSize
              /\ rlast'.size = NextSize
              /\ got.Data = SubSeq(rt.data, rt.pos + 9, rt.pos + 8 + s)
              /\ rlast'.n = 8 + s + (s % 2)
              /\ rt'.pos = rt.pos + rlast'.n
              /\ reader'.bytesRead = I64Add(reader.bytesRead, I64(rlast'.n))]_vars

C14_Witness ==
    /\ rlast.op = "ReadChunk"
    /\ rlast.err = NilError
    /\ nReads = 2
    /\ rlast.chunk = [Identifier |-> FourCCFormat, Data |-> <<1>>]
    /\ rlast.n = 10
    /\ rt.pos = 12 + 8 + 10
    /\ reader.bytesRead = I64(4 + 8 + 10)

\* A step in which Reader.ReadToEnd was called and returned.
ReadToEndCall == rlast'.op = "ReadToEnd" /\ nReads' = nReads + 1

\* The call returned an error of the transport itself (the reader hands
\* those on as they are; its own errors all wrap ErrCorrupted).
TransportFailed(err) == err \in {EOF, TransportErr}

\* C15: a ReadChunk whose transport reads all succeed and which brings the
\* bytes consumed above PaddedLength(declared size) fails with an error
\* matching Corrupted; so a ReadToEnd that starts within that bound never
\* returns without error having consumed more than that.
C15_DeclaredSizeIntegrity ==
    /\ [][(/\ ReadChunkStep
           /\ ~TransportFailed(rlast'.err)
           /\ I64Gt(reader'.bytesRead, PaddedLength(reader.size))) =>
             ErrorsIs(rlast'.err, ErrCorrupted)]_vars
    /\ [][(/\ ReadToEndCall
           /\ ~I64Gt(reader.bytesRead, PaddedLength(reader.size))
           /\ rlast'.err = NilError) =>
             ~I64Gt(reader'.bytesRead, PaddedLength(reader.size))]_vars

C15_Witness ==
    /\ rlast.op = "ReadChunk"
    /\ rt.fault = NoFault
    /\ rlast.n = 10
    /\ rt.pos = Len(rt.data)
    /\ reader.bytesRead = I64(14)
    /\ reader.size = I64(12)
    /\ rlast.err = errCorruptedReadOutOfBounds

\* Bytes of the stream not yet read.
Left == Len(rt.data) - rt.pos

\* The stream stops inside the next chunk: after 1..7 header bytes, or
\* after the header and fewer payload bytes than the padded size it declares.
Truncated ==
    \/ Left \in 1..(LengthChunkHeader - 1)
    \/ /\ Left >= LengthChunkHeader
       /\ I64Lt(I64(Left - LengthChunkHeader), PaddedLength(NextSize))

\* C16: on a transport that delivers what the stream holds, a ReadChunk on
\* a stream that stops inside the chunk fails with an error matching
\* Corrupted, never with io.EOF, and ReadToEnd on it returns an error.
C16_TruncatedChunkCorrupted ==
    /\ [][(ReadChunkStep /\ rt.fault = NoFault /\ Truncated) =>
             ErrorsIs(rlast'.err, ErrCorrupted) /\ ~ErrorsIs(rlast'.err, EOF)]_vars
    /\ [][(ReadToEndCall /\ rt.fault = NoFault /\ Truncated) => rlast'.err # NilError]_vars

\* The stream is a valid header, declaring at least the bytes that follow,
\* and then exactly the chunks cs, on a transport that delivers them.
WellFormed(cs) ==
    /\ rt.fault = NoFault
    /\ Len(rt.data) = 12 + Len(StreamBody(cs))
    /\ SubSeq(rt.data, 1, 4) = FourCCRIFF
    /\ ~I64Lt(LittleEndianUint32(SubSeq(rt.data, 5, 8)), I64(4 + Len(StreamBody(cs))))
    /\ SubSeq(rt.data, 13, Len(rt.data)) = StreamBody(cs)

\* ReadToEnd is the first call on the reader New returned.
FirstReadToEnd == ReadToEndCall /\ nReads = 0

\* C17: on a well-formed stream of chunks cs, ReadToEnd returns no error
\* and exactly cs, and its ReadChunk calls consume the sum of the chunks'
\* on-wire lengths.
C17_ReadToEndWellFormed ==
    [][\A cs \in ChunkSeqs :
          (FirstReadToEnd /\ WellFormed(cs)) =>
              /\ rlast'.err = NilError
              /\ rlast'.chunks = cs
              /\ rlast'.n = SumOnWire(cs)
              /\ reader'.bytesRead = I64(4 + SumOnWire(cs))]_vars

\* The results of calling ReadChunk again and again from (rd, t), up to and
\* including the first call that fails.
RECURSIVE ChunkReads(_, _)
ChunkReads(rd, t) ==
    LET r == ReadChunkResult(rd, t, NoChunk)
    IN  IF r.err # NilError THEN <<r>> ELSE <<r>> \o ChunkReads(r.rd, r.t)

\* C18: when the j-th ReadChunk inside ReadToEnd fails with an error other
\* than io.EOF, ReadToEnd returns that error and exactly the j-1 chunks
\* read before it, in order, and reads nothing after the failed call.
C18_PartialResultOnFailure ==
    [][ReadToEndCall =>
          LET rs == ChunkReads(reader, rt)
              j == Len(rs)
          IN  ~ErrorsIs(rs[j].err, EOF) =>
                  /\ rlast'.err = rs[j].err
                  /\ rlast'.chunks = [i \in 1..(j - 1) |-> rs[i].chunk]
                  /\ rt' = rs[j].t
                  /\ reader' = rs[j].rd]_vars

C18_Witness ==
    /\ rlast.op = "ReadToEnd"
    /\ nReads = 1
    /\ rt.fault.at = 7
    /\ rlast.err = TransportErr
    /\ rlast.chunks = <<[Identifier |-> FourCCData, Data |-> <<1, 2>>]>>
    /\ rt.pos < Len(rt.data)

\* ------------------------------------------------------------ wave/wave.go
LengthFormatChunk == LengthChunkHeader + 16
PCM == 1

BadErrBadWaveData == <<"invalid Wavefile data">>
ErrBadWaveData == <<"invalid Wavefile data">> \o ErrCorrupted
ErrUnrecognizedAudioFormat == <<"unrecognized audio format">> \o ErrBadWaveData
ErrInvalidChannelCount == <<"invalid channel count">> \o ErrBadWaveData
ErrInvalidSampleRate == <<"invalid sample rate">> \o ErrBadWaveData
ErrInconsistentBytesPerSecond == <<"bytes per second was inconsistent">> \o ErrBadWaveData
ErrInconsistentBlockAlignment == <<"block alignment was inconsistent">> \o ErrBadWaveData
ErrInvalidBitRate == <<"invalid bit rate">> \o ErrBadWaveData

\* A Go panic, as the outcome of a call.
Panicked == <<"panic">>

\* uint16 and uint32 arithmetic.  A uint16 is an integer below 65536; a
\* uint32 is a pair of limbs.  Mul16 is the full product of two uint16
\* values, built from products that stay below 2^24.
Mul16(a, b) ==
    LET p0 == a * (b % 256)
        p1 == a * (b \div 256)
        low == p0 + (p1 % 256) * 256
    IN  [hi |-> (p1 \div 256) + (low \div Limb), lo |-> low % Limb]

\* x * y for a uint32 x and a uint16 y widened to uint32, modulo 2^32.
U32Mul(x, y) ==
    LET l == Mul16(x.lo, y)
        h == Mul16(x.hi, y)
    IN  [hi |-> (l.hi + h.lo) % Limb, lo |-> l.lo]

U32Div8(x) == [hi |-> x.hi \div 8, lo |-> ((x.hi % 8) * Limb + x.lo) \div 8]

LittleEndianUInt16Bytes(u) == <<u % 256, u \div 256>>

\* internal.ReadLittleEndianUInt16 / UInt32 on the bytes b from offset o.
ReadLittleEndianUInt16(b, o) == b[o + 1] + 256 * b[o + 2]
ReadLittleEndianUInt32(b, o) == LittleEndianUint32(SubSeq(b, o + 1, o + 4))

\* Format.BlockAlign and Format.BytesPerSecond
BlockAlign(f) == ((f.BitsPerSample \div 8) * f.Channels) % Limb
BytesPerSecond(f) == U32Mul(U32Div8(U32Mul(f.SampleRate, f.BitsPerSample)), f.Channels)

ZeroFormat == [BitsPerSample |-> 0, Channels |-> 0, SampleRate |-> I64(0), AudioFormat |-> 0]

\* formatToBytes, without the 8 bytes of chunk header.
FormatData(f) ==
    LittleEndianUInt16Bytes(f.AudioFormat) \o LittleEndianUInt16Bytes(f.Channels)
        \o LittleEndianUInt32Bytes(f.SampleRate) \o LittleEndianUInt32Bytes(BytesPerSecond(f))
        \o LittleEndianUInt16Bytes(BlockAlign(f)) \o LittleEndianUInt16Bytes(f.BitsPerSample)

BadValidate(f) ==
    IF f.Channels = 0 THEN <<"channel count cannot be 0">> \o ErrInvalidChannelCount
    ELSE IF f.SampleRate = I64(0) THEN <<"sample rate cannot be 0">> \o ErrInvalidSampleRate
    ELSE IF f.BitsPerSample = 0 THEN <<"bit rate cannot be 0">> \o ErrInvalidBitRate
    ELSE IF f.BitsPerSample % 8 # 0 THEN <<"bit rate must be a multiple of 8">> \o ErrInvalidBitRate
    ELSE NilError

\* Validate
Validate(f) ==
    IF f.BitsPerSample = 0 THEN <<"bit rate cannot be 0">> \o ErrInvalidBitRate
    ELSE IF f.BitsPerSample % 8 # 0 THEN <<"bit rate must be a multiple of 8">> \o ErrInvalidBitRate
    ELSE IF f.Channels = 0 THEN <<"channel count cannot be 0">> \o ErrInvalidChannelCount
    ELSE IF f.SampleRate = I64(0) THEN <<"sample rate cannot be 0">> \o ErrInvalidSampleRate
    ELSE NilError

\* FormatFromReader's checks of what ReadChunk reported and of the two
\* stored fields it recomputes.
BadIsFormatChunkLength(n) == n >= LengthFormatChunk
IsFormatChunkLength(n) == n = LengthFormatChunk

BadFieldMatches(stored, computed) == TRUE
FieldMatches(stored, computed) == stored = computed

\* FormatFromReader after ReadChunk returned the fields, from byte 0 of data.
BadDecodeFormat(data) ==
    LET f == [AudioFormat |-> ReadLittleEndianUInt16(data, 0),
              Channels |-> ReadLittleEndianUInt16(data, 2),
              SampleRate |-> ReadLittleEndianUInt32(data, 4),
              BitsPerSample |-> ReadLittleEndianUInt16(data, 14)]
        expectedBytesPerSecond == ReadLittleEndianUInt32(data, 8)
        expectedBlockAlign == ReadLittleEndianUInt16(data, 12)
    IN  IF ~FieldMatches(expectedBytesPerSecond, BytesPerSecond(f))
        THEN [f |-> f, err |-> <<"stream has invalid average bytes-per-second field">>
                                   \o ErrInconsistentBytesPerSecond]
        ELSE IF ~FieldMatches(expectedBlockAlign, BlockAlign(f))
        THEN [f |-> f, err |-> <<"stream contained invalid block alignment">>
                                   \o ErrInconsistentBlockAlignment]
        ELSE [f |-> f, err |-> NilError]

DecodeFormat(data) ==
    LET f == [AudioFormat |-> ReadLittleEndianUInt16(data, 0),
              Channels |-> ReadLittleEndianUInt16(data, 2),
              SampleRate |-> ReadLittleEndianUInt32(data, 4),
              BitsPerSample |-> ReadLittleEndianUInt16(data, 14)]
        expectedBytesPerSecond == ReadLittleEndianUInt32(data, 8)
        expectedBlockAlign == ReadLittleEndianUInt16(data, 12)
    IN  IF ~FieldMatches(expectedBytesPerSecond, BytesPerSecond(f))
        THEN [f |-> f, err |-> <<"stream has invalid average bytes-per-second field">>
                                   \o ErrInconsistentBytesPerSecond]
        ELSE IF ~FieldMatches(expectedBlockAlign, BlockAlign(f))
        THEN [f |-> f, err |-> <<"stream contained invalid block alignment">>
                                   \o ErrInconsistentBlockAlignment]
        ELSE [f |-> f, err |-> Validate(f)]

\* FormatFromReader, given what the reader's ReadChunk returned: r.n, r.err
\* and the chunk it filled in.  Reading a field past the end of the data
\* panics.
FormatFromReaderResult(r) ==
    IF r.err # NilError THEN [f |-> ZeroFormat, err |-> r.err]
    ELSE IF ~IsFormatChunkLength(r.n)
    THEN [f |-> ZeroFormat, err |-> <<"format chunk is invalid size">> \o ErrBadWaveData]
    ELSE IF r.chunk.Identifier # FourCCFormat
    THEN [f |-> ZeroFormat, err |-> <<"format chunk FOURCC incorrect">> \o ErrBadWaveData]
    ELSE IF Len(r.chunk.Data) < 16 THEN [f |-> ZeroFormat, err |-> Panicked]
    ELSE DecodeFormat(r.chunk.Data)

\* Formats and the 16-byte payloads tried: every field at and around its
\* limits, the two derived fields right or wrong.
Formats ==
    [AudioFormat : {PCM, 2}, Channels : {0, 1, 2}, BitsPerSample : {0, 8, 12, 16},
     SampleRate : {I64(0), I64(44100), MaxUint32}]
    \cup {ZeroFormat}

U32Inc(x) == Uint32(I64Add(x, I64(1)))

FormatPayload(f, rate, align) ==
    LittleEndianUInt16Bytes(f.AudioFormat) \o LittleEndianUInt16Bytes(f.Channels)
        \o LittleEndianUInt32Bytes(f.SampleRate) \o LittleEndianUInt32Bytes(rate)
        \o LittleEndianUInt16Bytes(align) \o LittleEndianUInt16Bytes(f.BitsPerSample)

FormatPayloads ==
    UNION {{FormatPayload(f, rate, align) :
               rate \in {BytesPerSecond(f), U32Inc(BytesPerSecond(f))},
               align \in {BlockAlign(f), (BlockAlign(f) + 1) % Limb}} : f \in Formats}

\* What a mock reader's ReadChunk may report (MockGoriffaReadWriter).
MockReads ==
    {[n |-> n, err |-> NilError, chunk |-> [Identifier |-> id, Data |-> d]] :
        n \in (LengthFormatChunk - 1)..(LengthFormatChunk + 1),
        id \in {FourCCFormat, FourCCData},
        d \in FormatPayloads}
    \cup {[n |-> n, err |-> e, chunk |-> NoChunk] :
             n \in {0, LengthChunkHeader, LengthFormatChunk},
             e \in {TransportErr, EOF, errCorruptedTooShort}}

\* Streams that start with a format chunk: its payload whole, or cut by one
\* or two bytes (and padded), followed by a data chunk.
WaveStreams ==
    LET body(d) == ChunkBytes([Identifier |-> FourCCFormat, Data |-> d])
                       \o ChunkBytes([Identifier |-> FourCCData, Data |-> <<1, 2>>])
        cuts(d) == {SubSeq(d, 1, n) : n \in 14..16}
    IN  {Stream(HeaderBytes(FourCCRIFF, I64(4 + Len(body(d))), FileTypeWavefile) \o body(d), "Reader", NoFault) :
            d \in UNION {cuts(p) : p \in FormatPayloads}}

InitWave ==
    /\ WInit
    /\ reader = NoReader
    /\ rlast = NoCall
    /\ nReads = 0
    /\ \/ rstate = "mock" /\ rt = NoStream
       \/ rstate = "none" /\ rt \in WaveStreams

\* FormatFromReader on a mock reader whose ReadChunk reports m.
FormatFromReaderMock(m) ==
    /\ rstate = "mock"
    /\ nReads < MaxReads
    /\ nReads' = nReads + 1
    /\ LET res == FormatFromReaderResult(m)
       IN  rlast' = [op |-> "FormatFromReader", n |-> m.n, err |-> res.err, fault |-> NoFault,
                     read |-> m, f |-> res.f]
    /\ UNCHANGED <<rstate, reader, rt>>
    /\ UNCHANGED wvars

\* FormatFromReader on the reader New returned.
FormatFromReader ==
    /\ rstate = "open"
    /\ nReads < MaxReads
    /\ nReads' = nReads + 1
    /\ LET r == ReadChunkResult(reader, rt, NoChunk)
           res == FormatFromReaderResult(r)
       IN  /\ reader' = r.rd
           /\ rt' = r.t
           /\ rlast' = [op |-> "FormatFromReader", n |-> r.n, err |-> res.err, fault |-> NoFault,
                        read |-> [n |-> r.n, err |-> r.err, chunk |-> r.chunk], f |-> res.f]
    /\ UNCHANGED rstate
    /\ UNCHANGED wvars

NextWave ==
    \/ ReaderOpen
    \/ FormatFromReader
    \/ \E m \in MockReads : FormatFromReaderMock(m)

SpecWave == InitWave /\ [][NextWave]_vars

\* ------------------------------------------------------------- wave claims
\* The state right after FormatFromReader returned.
Decoded == rlast.op = "FormatFromReader"

\* ReadChunk gave FormatFromReader a 24-byte "fmt " chunk with its 16 bytes
\* of data, so the fields were decoded and the cross-field check was made.
FieldsDecoded ==
    /\ Decoded
    /\ rlast.read.err = NilError
    /\ rlast.read.n = 24
    /\ rlast.read.chunk.Identifier = FourCCFormat
    /\ Len(rlast.read.chunk.Data) >= 16

\* The fields as stored in the data ReadChunk returned.
StoredFormat ==
    LET d == rlast.read.chunk.Data
    IN  [AudioFormat |-> d[1] + 256 * d[2],
         Channels |-> d[3] + 256 * d[4],
         SampleRate |-> [hi |-> d[7] + 256 * d[8], lo |-> d[5] + 256 * d[6]],
         BitsPerSample |-> d[15] + 256 * d[16]]
StoredBytesPerSecond ==
    LET d == rlast.read.chunk.Data
    IN  [hi |-> d[11] + 256 * d[12], lo |-> d[9] + 256 * d[10]]
StoredBlockAlign ==
    LET d == rlast.read.chunk.Data
    IN  d[13] + 256 * d[14]

CrossFieldsAgree ==
    /\ StoredBytesPerSecond = BytesPerSecond(StoredFormat)
    /\ StoredBlockAlign = BlockAlign(StoredFormat)

\* C19: FormatFromReader fails with an error matching Corrupted whenever
\* the stored byte rate or the stored block alignment differs from the
\* value recomputed from the decoded fields, and reports neither
\* inconsistency when both agree.
C19_CrossFieldCheck ==
    FieldsDecoded =>
        /\ ~CrossFieldsAgree => rlast.err # NilError /\ ErrorsIs(rlast.err, ErrCorrupted)
        /\ StoredBytesPerSecond # BytesPerSecond(StoredFormat) =>
               ErrorsIs(rlast.err, ErrInconsistentBytesPerSecond)
        /\ CrossFieldsAgree =>
               /\ ~ErrorsIs(rlast.err, ErrInconsistentBytesPerSecond)
               /\ ~ErrorsIs(rlast.err, ErrInconsistentBlockAlignment)

C19_Witness ==
    /\ FieldsDecoded
    /\ rstate = "open"
    /\ StoredFormat = [AudioFormat |-> PCM, Channels |-> 2, SampleRate |-> I64(44100), BitsPerSample |-> 16]
    /\ StoredBytesPerSecond = [hi |-> 2, lo |-> 45328]
    /\ StoredBlockAlign = 5
    /\ ErrorsIs(rlast.err, ErrInconsistentBlockAlignment)
    /\ ErrorsIs(rlast.err, ErrCorrupted)

\* A step in which FormatFromReader was called on a reader New returned.
FormatFromReaderStep == rlast'.op = "FormatFromReader" /\ nReads' = nReads + 1 /\ rstate = "open"

\* C20: FormatFromReader reads one chunk; it fails with an error matching
\* Corrupted when ReadChunk reported a count other than 24 or a chunk whose
\* identifier is not "fmt "; when ReadChunk failed it returns that error as
\* it is and decodes nothing.
C20_FormatChunkShape ==
    /\ [](Decoded =>
            /\ (rlast.read.err = NilError /\ rlast.read.n # 24) =>
                   rlast.err # NilError /\ ErrorsIs(rlast.err, ErrCorrupted)
            /\ (rlast.read.err = NilError /\ rlast.read.chunk.Identifier # FourCCFormat) =>
                   rlast.err # NilError /\ ErrorsIs(rlast.err, ErrCorrupted)
            /\ rlast.read.err # NilError =>
                   rlast.err = rlast.read.err /\ rlast.f = ZeroFormat)
    /\ [][FormatFromReaderStep =>
            /\ rt'.calls - rt.calls \in 1..2
            /\ rt'.pos = rt.pos + rlast'.read.n]_vars

C20_Witness ==
    /\ Decoded
    /\ rlast.read.err = NilError
    /\ rlast.read.n = LengthFormatChunk + 1
    /\ rlast.read.chunk.Identifier = FourCCFormat
    /\ StoredFormat = [AudioFormat |-> PCM, Channels |-> 2, SampleRate |-> I64(44100), BitsPerSample |-> 16]
    /\ CrossFieldsAgree
    /\ ErrorsIs(rlast.err, ErrBadWaveData)

\* The decoded fields pass every rule of Validate.
StoredFieldsValid ==
    /\ StoredFormat.BitsPerSample # 0
    /\ StoredFormat.BitsPerSample % 8 = 0
    /\ StoredFormat.Channels # 0
    /\ StoredFormat.SampleRate # I64(0)

\* C21: decoding a format chunk whose audio-format code is not PCM fails
\* with an error matching ErrUnrecognizedAudioFormat, also when the byte
\* rate and the block alignment are consistent and the other fields valid.
C21_UnrecognizedAudioFormat ==
    (FieldsDecoded /\ StoredFormat.AudioFormat # PCM /\ CrossFieldsAgree /\ StoredFieldsValid) =>
        /\ rlast.err # NilError
        /\ ErrorsIs(rlast.err, ErrUnrecognizedAudioFormat)

\* What the code does with such a chunk: it is decoded without error and
\* the format returned carries the unrecognized code.
C21_NonPCMAccepted ==
    (FieldsDecoded /\ StoredFormat.AudioFormat # PCM /\ CrossFieldsAgree /\ StoredFieldsValid) =>
        /\ rlast.err = NilError
        /\ rlast.f = StoredFormat

C21_NonPCMDecoded ==
    /\ FieldsDecoded
    /\ rstate = "open"
    /\ StoredFormat = [AudioFormat |-> 2, Channels |-> 2, SampleRate |-> I64(44100), BitsPerSample |-> 16]
    /\ CrossFieldsAgree
    /\ rlast.err = NilError

\* C30: every format FormatFromReader returns without error has a channel
\* count and a sample rate other than 0 and a bit depth that is a nonzero
\* multiple of 8; a chunk whose derived fields are consistent but one of
\* whose fields is invalid is rejected.
C30_DecodedFormatValid ==
    /\ (Decoded /\ rlast.err = NilError) =>
           /\ rlast.f.Channels # 0
           /\ rlast.f.SampleRate # I64(0)
           /\ rlast.f.BitsPerSample # 0
           /\ rlast.f.BitsPerSample % 8 = 0
    /\ (FieldsDecoded /\ CrossFieldsAgree /\ ~StoredFieldsValid) =>
           /\ rlast.err # NilError
           /\ ErrorsIs(rlast.err, ErrBadWaveData)

C30_Witness ==
    /\ FieldsDecoded
    /\ rstate = "open"
    /\ StoredFormat = [AudioFormat |-> PCM, Channels |-> 2, SampleRate |-> I64(44100), BitsPerSample |-> 12]
    /\ CrossFieldsAgree
    /\ ErrorsIs(rlast.err, ErrInvalidBitRate)

C30_WitnessAllZero ==
    /\ FieldsDecoded
    /\ StoredFormat = ZeroFormat
    /\ CrossFieldsAgree
    /\ rlast.err # NilError

\* ------------------------------------------------- the functions by themselves
\* Validate, BytesPerSecond, BlockAlign, PaddedLength and ByteLength applied
\* to arguments drawn at the start: each field at and around its limits.
FormatArgs ==
    [AudioFormat : {PCM, 2}, Channels : {0, 1, 2, 9, Limb - 1},
     BitsPerSample : {0, 8, 12, 16, 32, Limb - 8, Limb - 1},
     SampleRate : {I64(0), I64(1), I64(44100), [hi |-> 8192, lo |-> 0], [hi |-> 32768, lo |-> 1], MaxUint32}]

LengthArgs ==
    {I64(n) : n \in 0..(MaxData + 2)}
        \cup {I64(Limb - 1), I64(Limb), [hi |-> Limb - 1, lo |-> Limb - 2], MaxUint32}

Arg(op, x) == [op |-> op, n |-> 0, err |-> NilError, fault |-> NoFault, arg |-> x]

InitPure ==
    /\ WInit
    /\ rstate = "none"
    /\ reader = NoReader
    /\ rt = NoStream
    /\ nReads = 0
    /\ \/ \E f \in FormatArgs : rlast = Arg("Format", f)
       \/ \E n \in LengthArgs : rlast = Arg("int64", n)
       \/ \E c \in Chunks : rlast = Arg("Chunk", c)

Returned(op, x, out, err) == [op |-> op, n |-> 0, err |-> err, fault |-> NoFault, arg |-> x, out |-> out]

CallValidate ==
    /\ rlast.op = "Format"
    /\ rlast' = Returned("Validate", rlast.arg, <<>>, Validate(rlast.arg))
    /\ UNCHANGED <<rstate, reader, rt, nReads>>
    /\ UNCHANGED wvars

CallBytesPerSecond ==
    /\ rlast.op = "Format"
    /\ rlast' = Returned("BytesPerSecond", rlast.arg, BytesPerSecond(rlast.arg), NilError)
    /\ UNCHANGED <<rstate, reader, rt, nReads>>
    /\ UNCHANGED wvars

CallBlockAlign ==
    /\ rlast.op = "Format"
    /\ rlast' = Returned("BlockAlign", rlast.arg, BlockAlign(rlast.arg), NilError)
    /\ UNCHANGED <<rstate, reader, rt, nReads>>
    /\ UNCHANGED wvars

\* PaddedLength(n), and PaddedLength applied to what it returned.
CallPaddedLength ==
    /\ rlast.op = "int64"
    /\ rlast' = Returned("PaddedLength", rlast.arg,
                         [once |-> PaddedLength(rlast.arg), twice |-> PaddedLength(PaddedLength(rlast.arg))],
                         NilError)
    /\ UNCHANGED <<rstate, reader, rt, nReads>>
    /\ UNCHANGED wvars

CallByteLength ==
    /\ rlast.op = "Chunk"
    /\ rlast' = Returned("ByteLength", rlast.arg, ByteLength(rlast.arg), NilError)
    /\ UNCHANGED <<rstate, reader, rt, nReads>>
    /\ UNCHANGED wvars

NextPure ==
    \/ CallValidate
    \/ CallBytesPerSecond
    \/ CallBlockAlign
    \/ CallPaddedLength
    \/ CallByteLength

SpecPure == InitPure /\ [][NextPure]_vars

\* Validate returned, for the format rlast.arg.
Validated == rlast.op = "Validate"

BitDepthValid == rlast.arg.BitsPerSample # 0 /\ rlast.arg.BitsPerSample % 8 = 0

\* C24: Validate accepts a format exactly when its bit depth is a nonzero
\* multiple of 8 and its channel count and sample rate are not 0; of
\* several violations the bit depth is reported before the channel count,
\* and the channel count before the sample rate.
C24_ValidateRules ==
    Validated =>
        /\ rlast.err = NilError <=>
               (BitDepthValid /\ rlast.arg.Channels # 0 /\ rlast.arg.SampleRate # I64(0))
        /\ ~BitDepthValid => ErrorsIs(rlast.err, ErrInvalidBitRate)
        /\ (BitDepthValid /\ rlast.arg.Channels = 0) => ErrorsIs(rlast.err, ErrInvalidChannelCount)
        /\ (BitDepthValid /\ rlast.arg.Channels # 0 /\ rlast.arg.SampleRate = I64(0)) =>
               ErrorsIs(rlast.err, ErrInvalidSampleRate)

C24_Witness ==
    /\ Validated
    /\ rlast.arg.BitsPerSample = 12
    /\ rlast.arg.Channels = 0
    /\ rlast.arg.SampleRate = I64(0)
    /\ ErrorsIs(rlast.err, ErrInvalidBitRate)
    /\ ~ErrorsIs(rlast.err, ErrInvalidChannelCount)
    /\ ~ErrorsIs(rlast.err, ErrInvalidSampleRate)

\* C25 as stated: the error Validate returns for an invalid field does not
\* match Corrupted.
C25_ValidationNotCorrupted ==
    (Validated /\ rlast.err # NilError) => ~ErrorsIs(rlast.err, ErrCorrupted)

\* C25, amended: the error Validate returns for an invalid field names the
\* field (bit rate, channel count or sample rate), wraps ErrBadWaveData and
\* through it matches Corrupted; it matches none of the reader's and
\* writer's own corruption errors.
C25_ValidationMatchesCorrupted ==
    (Validated /\ rlast.err # NilError) =>
        /\ ErrorsIs(rlast.err, ErrCorrupted)
        /\ Len(rlast.err) = 4
        /\ rlast.err[2] \in {"invalid bit rate", "invalid channel count", "invalid sample rate"}
        /\ rlast.err[3] = "invalid Wavefile data"
        /\ \A e \in {errCorruptedTooShort, errCorruptedReadOutOfBounds, ErrSizeOverflow,
                     errNoRIFFHeader, errImpossiblySmall} : ~ErrorsIs(rlast.err, e)

C25_Witness ==
    /\ Validated
    /\ rlast.arg = [AudioFormat |-> PCM, Channels |-> 0, SampleRate |-> I64(44100), BitsPerSample |-> 16]
    /\ ErrorsIs(rlast.err, ErrInvalidChannelCount)
    /\ ErrorsIs(rlast.err, ErrCorrupted)

\* The exact product of a number given in 16-bit limbs (lowest first) and a
\* number below 65536: one limb more than the number given.
RECURSIVE WideFrom(_, _, _)
WideFrom(x, y, carry) ==
    IF x = <<>> THEN <<carry>>
    ELSE LET p == Mul16(Head(x), y)
             t == p.lo + carry
         IN  <<t % Limb>> \o WideFrom(Tail(x), y, p.hi + (t \div Limb))

Wide(x, y) == WideFrom(x, y, 0)

\* sampleRate * (bitsPerSample / 8) * channels of the format rlast.arg, in
\* four limbs, and its block alignment (bitsPerSample / 8) * channels.
ExactByteRate ==
    Wide(Wide(<<rlast.arg.SampleRate.lo, rlast.arg.SampleRate.hi>>, rlast.arg.BitsPerSample \div 8),
         rlast.arg.Channels)

ExactBlockAlign == (rlast.arg.BitsPerSample \div 8) * rlast.arg.Channels

ByteRateComputed == rlast.op = "BytesPerSecond" /\ rlast.arg.BitsPerSample % 8 = 0

\* C27: for a bit depth that is a multiple of 8, BytesPerSecond returns the
\* exact product sampleRate * (bitsPerSample / 8) * channels whenever that
\* product fits 32 bits, and sampleRate * BlockAlign() (in uint32
\* arithmetic) whenever the block alignment fits 16 bits.
C27_ByteRateExact ==
    ByteRateComputed =>
        /\ (ExactByteRate[3] = 0 /\ ExactByteRate[4] = 0) =>
               rlast.out = [hi |-> ExactByteRate[2], lo |-> ExactByteRate[1]]
        /\ ExactBlockAlign < Limb =>
               rlast.out = U32Mul(rlast.arg.SampleRate, BlockAlign(rlast.arg))

\* What holds of the code: the value is exact when, besides, the
\* intermediate product sampleRate * bitsPerSample fits 32 bits.
C27_ByteRateExactWithoutWrap ==
    (ByteRateComputed /\ Wide(<<rlast.arg.SampleRate.lo, rlast.arg.SampleRate.hi>>, rlast.arg.BitsPerSample)[3] = 0) =>
        /\ (ExactByteRate[3] = 0 /\ ExactByteRate[4] = 0) =>
               rlast.out = [hi |-> ExactByteRate[2], lo |-> ExactByteRate[1]]
        /\ ExactBlockAlign < Limb =>
               rlast.out = U32Mul(rlast.arg.SampleRate, BlockAlign(rlast.arg))

\* 2^29 samples per second of 8 bits on one channel: the byte rate is 2^29
\* and BytesPerSecond returns 0.
C27_WrappedByteRate ==
    /\ ByteRateComputed
    /\ rlast.arg.SampleRate = [hi |-> 8192, lo |-> 0]
    /\ rlast.arg.BitsPerSample = 8
    /\ rlast.arg.Channels = 1
    /\ ExactByteRate = <<0, 8192, 0, 0>>
    /\ rlast.out = I64(0)

\* C28: PaddedLength(n) is even, is n for an even n and n + 1 for an odd n,
\* and PaddedLength of it is the same value again; Chunk.ByteLength() is
\* 8 + len(Data) + (len(Data) mod 2).
C28_PaddedLengthEven ==
    /\ rlast.op = "PaddedLength" =>
           /\ rlast.out.once.lo % 2 = 0
           /\ rlast.arg.lo % 2 = 0 => rlast.out.once = rlast.arg
           /\ rlast.arg.lo % 2 = 1 =>
                  /\ rlast.out.once.lo = (rlast.arg.lo + 1) % Limb
                  /\ rlast.out.once.hi = rlast.arg.hi + (IF rlast.arg.lo = Limb - 1 THEN 1 ELSE 0)
           /\ rlast.out.twice = rlast.out.once
    /\ rlast.op = "ByteLength" =>
           rlast.out = I64(8 + Len(rlast.arg.Data) + (Len(rlast.arg.Data) % 2))

C28_Witness ==
    /\ rlast.op = "PaddedLength"
    /\ rlast.arg = MaxUint32
    /\ rlast.out.once = [hi |-> Limb, lo |-> 0]
    /\ rlast.out.twice = [hi |-> Limb, lo |-> 0]

C28_WitnessByteLength ==
    /\ rlast.op = "ByteLength"
    /\ Len(rlast.arg.Data) = 1
    /\ rlast.out = I64(10)

\* ------------------------------------------------------------------ WritePCM
\* The writer WritePCM is given, as a value: the fields WriteChunk reads and
\* writes, and its transport.
TheWriter ==
    [fileSize |-> fileSize, closed |-> closed, buf |-> buf, nWrite |-> nWrite, written |-> written]

\* Writer.WriteChunk on the writer w: [n, err, w, wrote], wrote telling
\* whether the chunk was handed to the transport.
WriteChunkWritten(w, c, r) ==
    [n |-> r.total, err |-> r.err, wrote |-> TRUE,
     w |-> [w EXCEPT !.buf = w.buf \o r.bytes,
                     !.nWrite = w.nWrite + r.calls,
                     !.fileSize = IF r.err # NilError THEN w.fileSize ELSE I64Add(w.fileSize, I64(r.total)),
                     !.written = IF r.err # NilError THEN w.written ELSE Append(w.written, c)]]

WriteChunkResult(w, c, f) ==
    IF ~AcceptsChunks(w.closed) THEN [n |-> 0, err |-> ErrClosed, wrote |-> FALSE, w |-> w]
    ELSE IF Overflows(I64Add(w.fileSize, ByteLength(c)), w.fileSize)
    THEN [n |-> 0, err |-> ErrSizeOverflow, wrote |-> FALSE, w |-> w]
    ELSE WriteChunkWritten(w, c, Write(ChunkContent(c), f))

\* formatToBytes: the whole "fmt " chunk, header included.
formatToBytes(f) ==
    FourCCFormat \o LittleEndianUInt32Bytes(I64(Len(FormatData(f)))) \o FormatData(f)

\* WritePCM's tests of the format's code and of the first WriteChunk's error.
BadIsPCM(audioFormat) == TRUE
IsPCM(audioFormat) == audioFormat = PCM

BadDataChunkAttempted(fmtErr) == TRUE
DataChunkAttempted(fmtErr) == fmtErr = NilError

ErrNonPCM == <<"attempt to write PCM data with non-PCM audio format">> \o ErrBadWaveData

FormatChunk(f) ==
    [Identifier |-> FourCCFormat,
     Data |-> SubSeq(formatToBytes(f), LengthChunkHeader + 1, Len(formatToBytes(f)))]

DataChunk(pcm) == [Identifier |-> FourCCData, Data |-> pcm]

\* One WriteChunk call as WritePCM made it: the chunk passed, what came back.
Called(c, r) == [c |-> c, n |-> r.n, err |-> r.err, wrote |-> r.wrote]

\* WritePCM after the first WriteChunk returned r1, and after the second
\* returned r2.
WritePCMData(c1, r1, c2, r2) ==
    [n |-> r1.n + r2.n, err |-> r2.err, w |-> r2.w, calls |-> <<Called(c1, r1), Called(c2, r2)>>]

WritePCMFormat(c1, r1, pcm, f2) ==
    IF ~DataChunkAttempted(r1.err)
    THEN [n |-> r1.n, err |-> r1.err, w |-> r1.w, calls |-> <<Called(c1, r1)>>]
    ELSE WritePCMData(c1, r1, DataChunk(pcm), WriteChunkResult(r1.w, DataChunk(pcm), f2))

\* wave.WritePCM(w, f, pcm): [n, err, w, calls], the transport answering the
\* first WriteChunk's writes as f1 says and the second's as f2 says.
WritePCMResult(w, f, pcm, f1, f2) ==
    IF Validate(f) # NilError THEN [n |-> 0, err |-> Validate(f), w |-> w, calls |-> <<>>]
    ELSE IF ~IsPCM(f.AudioFormat) THEN [n |-> 0, err |-> ErrNonPCM, w |-> w, calls |-> <<>>]
    ELSE WritePCMFormat(FormatChunk(f), WriteChunkResult(w, FormatChunk(f), f1), pcm, f2)

\* The fault given for the i-th WriteChunk call is one its writes can meet;
\* a call that was not made, or that wrote nothing, meets none.
FaultFits(calls, i, f) ==
    IF i <= Len(calls) /\ calls[i].wrote THEN ValidFault(ChunkContent(calls[i].c), f) ELSE f = NoFault

FaultCount(f1, f2) == (IF IsFault(f1) THEN 1 ELSE 0) + (IF IsFault(f2) THEN 1 ELSE 0)

\* A run makes its WritePCM calls one at a time (between two of them the
\* writer is closed) and leaves room for the two WriteChunk calls of each.
PCMReady ==
    /\ wstate = "open"
    /\ last.op # "WritePCM"
    /\ nChunks + 2 <= MaxChunks

WritePCM(f, pcm, f1, f2) ==
    /\ PCMReady
    /\ faults + FaultCount(f1, f2) <= MaxFaults
    /\ LET r == WritePCMResult(TheWriter, f, pcm, f1, f2)
       IN  /\ FaultFits(r.calls, 1, f1)
           /\ FaultFits(r.calls, 2, f2)
           /\ fileSize' = r.w.fileSize
           /\ buf' = r.w.buf
           /\ nWrite' = r.w.nWrite
           /\ written' = r.w.written
           /\ nChunks' = nChunks + Len(r.calls)
           /\ faults' = faults + FaultCount(f1, f2)
           /\ last' = [op |-> "WritePCM", n |-> r.n, err |-> r.err, fault |-> f1, faultData |-> f2,
                       f |-> f, pcm |-> pcm, calls |-> r.calls]
    /\ UNCHANGED <<wstate, fileType, closed, patches, nCloses>>
    /\ UNCHANGED rvars

\* The outcomes tried for the writes of one WriteChunk call.
ChunkFaults(c) == {f \in WriteFaults(ChunkContent(c)) : ValidFault(ChunkContent(c), f)}

\* A writer New has just returned, or one that has put close to 4 GiB on
\* its transport: room for no chunk, or for the "fmt " chunk and little else.
PCMStarts == {Slack, LengthFormatChunk + Slack}

InitPCM ==
    \/ Init
    \/ /\ fileType = FileTypeWavefile
       /\ buf = FourCCRIFF \o EmptyBytes \o FileTypeWavefile
       /\ \E d \in PCMStarts : fileSize = [hi |-> Limb - 1, lo |-> Limb - 1 - d]
       /\ wstate = "open"
       /\ closed = FALSE
       /\ nWrite = 3
       /\ patches = <<>>
       /\ last = [op |-> "emulated", n |-> 0, err |-> NilError, fault |-> NoFault]
       /\ written = <<>>
       /\ faults = 0
       /\ nChunks = 0
       /\ nCloses = 0
       /\ RInit

NextPCM ==
    \/ \E ft \in FileTypes : New(ft, NoFault)
    \/ /\ PCMReady
       /\ \E f \in Formats, pcm \in Datas :
             \E f1 \in ChunkFaults(FormatChunk(f)), f2 \in ChunkFaults(DataChunk(pcm)) :
                 WritePCM(f, pcm, f1, f2)
    \/ Close(NoFault)
    \/ \E kind \in StreamKinds : ReaderNew(kind)
    \/ FormatFromReader

SpecPCM == InitPCM /\ [][NextPCM]_vars

\* ----------------------------------------------------------- WritePCM claims
\* A step in which WritePCM was called.
WritePCMStep == last.op # "WritePCM" /\ last'.op = "WritePCM"

\* The format passes every rule of validation, and its code is PCM.
FieldsValid(f) ==
    /\ f.BitsPerSample # 0
    /\ f.BitsPerSample % 8 = 0
    /\ f.Channels # 0
    /\ f.SampleRate # I64(0)

Accepted(f) == FieldsValid(f) /\ f.AudioFormat = 1

\* C22: WritePCM with an accepted format calls WriteChunk first with the
\* "fmt " chunk, whose data is 16 bytes, and then with the "data" chunk
\* holding the caller's payload.  When the first call fails the second is
\* not made, nothing of the "data" chunk reaches the transport, and the
\* first call's count and error are returned; otherwise the sum of both
\* counts is returned with the second call's error.
C22_EncodeOrder ==
    [][(WritePCMStep /\ Accepted(last'.f)) =>
          LET calls == last'.calls
          IN  /\ Len(calls) >= 1
              /\ calls[1].c.Identifier = FourCCFormat
              /\ Len(calls[1].c.Data) = 16
              /\ calls[1].err # NilError =>
                     /\ Len(calls) = 1
                     /\ last'.n = calls[1].n
                     /\ last'.err = calls[1].err
                     /\ nChunks' = nChunks + 1
                     /\ buf' = buf \o SubSeq(ChunkBytes(calls[1].c), 1, calls[1].n)
              /\ calls[1].err = NilError =>
                     /\ Len(calls) = 2
                     /\ calls[2].c = [Identifier |-> FourCCData, Data |-> last'.pcm]
                     /\ last'.n = calls[1].n + calls[2].n
                     /\ last'.err = calls[2].err
                     /\ nChunks' = nChunks + 2
                     /\ buf' = buf \o ChunkBytes(calls[1].c) \o SubSeq(ChunkBytes(calls[2].c), 1, calls[2].n)]_vars

C22_Witness ==
    /\ last.op = "WritePCM"
    /\ Accepted(last.f)
    /\ Len(last.calls) = 1
    /\ last.calls[1].c.Identifier = FourCCFormat
    /\ last.fault = [at |-> 2, k |-> 1, err |-> TransportErr]
    /\ last.n = 5
    /\ last.err = TransportErr
    /\ last.pcm = <<1, 2>>
    /\ Len(buf) = 12 + 5

C22_WitnessBothWritten ==
    /\ last.op = "WritePCM"
    /\ Len(last.calls) = 2
    /\ last.faultData = [at |-> 3, k |-> 1, err |-> NilError]
    /\ last.n = LengthFormatChunk + LengthChunkHeader + 1
    /\ last.err = ErrShortWrite

\* C23: when the format fails validation or its code is not PCM, WritePCM
\* returns 0 and the error of the rule broken, makes no WriteChunk call and
\* leaves the writer's size and its transport as they were.
C23_RejectedBeforeWriting ==
    [][(WritePCMStep /\ ~Accepted(last'.f)) =>
          /\ last'.n = 0
          /\ last'.err # NilError
          /\ ErrorsIs(last'.err, ErrBadWaveData)
          /\ (last'.f.BitsPerSample = 0 \/ last'.f.BitsPerSample % 8 # 0) =>
                 ErrorsIs(last'.err, ErrInvalidBitRate)
          /\ (last'.f.BitsPerSample # 0 /\ last'.f.BitsPerSample % 8 = 0 /\ last'.f.Channels = 0) =>
                 ErrorsIs(last'.err, ErrInvalidChannelCount)
          /\ (last'.f.BitsPerSample # 0 /\ last'.f.BitsPerSample % 8 = 0 /\ last'.f.Channels # 0
                /\ last'.f.SampleRate = I64(0)) =>
                 ErrorsIs(last'.err, ErrInvalidSampleRate)
          /\ (FieldsValid(last'.f) /\ last'.f.AudioFormat # 1) =>
                 \A e \in {ErrInvalidBitRate, ErrInvalidChannelCount, ErrInvalidSampleRate} :
                     ~ErrorsIs(last'.err, e)
          /\ last'.calls = <<>>
          /\ nChunks' = nChunks
          /\ fileSize' = fileSize
          /\ written' = written
          /\ TransportSame]_vars

C23_Witness ==
    /\ last.op = "WritePCM"
    /\ last.f = [AudioFormat |-> 2, Channels |-> 2, SampleRate |-> I64(44100), BitsPerSample |-> 16]
    /\ last.n = 0
    /\ ErrorsIs(last.err, ErrBadWaveData)
    /\ last.calls = <<>>
    /\ nChunks = 0
    /\ fileSize = I64(4)
    /\ Len(buf) = 12

C23_WitnessValidation ==
    /\ last.op = "WritePCM"
    /\ last.f = [AudioFormat |-> PCM, Channels |-> 0, SampleRate |-> I64(44100), BitsPerSample |-> 16]
    /\ ErrorsIs(last.err, ErrInvalidChannelCount)
    /\ fileSize = I64(4)
    /\ Len(buf) = 12

\* FormatFromReader on a reader whose ReadChunk returns the "fmt " chunk
\* with data p.
Decode(p) ==
    FormatFromReaderResult([n |-> LengthFormatChunk, err |-> NilError,
                            chunk |-> [Identifier |-> FourCCFormat, Data |-> p]])

PassedAsFormatChunk(p) ==
    /\ Len(last.calls) >= 1
    /\ last.calls[1].c = [Identifier |-> FourCCFormat, Data |-> p]

\* The reader was opened on the bytes of a closed writer whose first chunk
\* WritePCM wrote, and FormatFromReader is the first call on it.
ReadBack ==
    /\ rlast.op = "FormatFromReader"
    /\ nReads = 1
    /\ written # <<>>

\* C26: for every format f that FormatFromReader returns without error from
\* a 16-byte payload p, WritePCM(w, f, pcm) passes p as the data of the
\* "fmt " chunk; and for every valid PCM format f, decoding the "fmt "
\* chunk WritePCM emits gives f and no error.
C26_FormatRoundTrip ==
    /\ last.op = "WritePCM" =>
           /\ \A p \in FormatPayloads :
                  Decode(p) = [f |-> last.f, err |-> NilError] => PassedAsFormatChunk(p)
           /\ Accepted(last.f) => Decode(last.calls[1].c.Data) = [f |-> last.f, err |-> NilError]
    /\ ReadBack =>
           /\ rlast.err = NilError
           /\ written[1] = [Identifier |-> FourCCFormat,
                            Data |-> FormatPayload(rlast.f, BytesPerSecond(rlast.f), BlockAlign(rlast.f))]

\* What holds of the code: the same, for the payloads whose code is PCM.
C26_PCMRoundTrip ==
    /\ last.op = "WritePCM" =>
           /\ \A p \in FormatPayloads :
                  (Decode(p) = [f |-> last.f, err |-> NilError] /\ last.f.AudioFormat = PCM) =>
                      PassedAsFormatChunk(p)
           /\ Accepted(last.f) => Decode(last.calls[1].c.Data) = [f |-> last.f, err |-> NilError]
    /\ ReadBack =>
           /\ rlast.err = NilError
           /\ written[1] = [Identifier |-> FourCCFormat,
                            Data |-> FormatPayload(rlast.f, BytesPerSecond(rlast.f), BlockAlign(rlast.f))]

\* A payload with code 2 decodes without error and WritePCM, given the
\* format decoded, passes no chunk at all.
C26_DecodedButNotWritten ==
    /\ last.op = "WritePCM"
    /\ last.f.AudioFormat = 2
    /\ Decode(FormatData(last.f)) = [f |-> last.f, err |-> NilError]
    /\ last.calls = <<>>
    /\ last.err = ErrNonPCM

C26_ReadBackDone ==
    /\ ReadBack
    /\ rlast.err = NilError
    /\ rlast.f = [AudioFormat |-> PCM, Channels |-> 2, SampleRate |-> MaxUint32, BitsPerSample |-> 16]
    /\ Len(written) = 2

\* ------------------------------------- the writer on an accepting transport
\* Every write is accepted in full.  The writer is one New has just
\* returned, or one whose counter was set close to math.MaxUint32.
InitAccepting == Init \/ InitOverflow

NextAccepting ==
    \/ \E ft \in FileTypes : New(ft, NoFault)
    \/ \E c \in Chunks : WriteChunk(c, NoFault)
    \/ Close(NoFault)

SpecAccepting == InitAccepting /\ [][NextAccepting]_vars

\* The counter was set by hand, not counted up from New.
CounterEmulated == fileSize.hi = Limb - 1

\* C29: on a transport that accepts every write, the writer's size is
\* always within 4 .. 2^32-1, never decreases, and grows by exactly the
\* bytes put on the transport, so that counted up from New it is the
\* number of bytes after the 8-byte prefix; the four bytes Close patches
\* at offset 4 decode to the size itself.
C29_SizeInvariant ==
    /\ [](wstate = "open" =>
            /\ ~I64Lt(fileSize, I64(4))
            /\ ~I64Gt(fileSize, MaxUint32)
            /\ CounterEmulated \/ I64(Len(buf)) = I64Add(I64(8), fileSize))
    /\ [][/\ (wstate = "none" /\ wstate' = "open") => fileSize' = I64(4) /\ Len(buf') = 12
          /\ wstate = "open" =>
                 /\ ~I64Lt(fileSize', fileSize)
                 /\ fileSize' = I64Add(fileSize, I64(Len(buf') - Len(buf)))
          /\ (CloseStep /\ ~closed) =>
                 /\ Len(patches') = Len(patches) + 1
                 /\ LittleEndianUint32(SubSeq(buf', 5, 8)) = fileSize
                 /\ fileSize' = fileSize]_vars

C29_Witness ==
    /\ wstate = "open"
    /\ closed
    /\ Len(written) = 1
    /\ fileSize = MaxUint32
    /\ SubSeq(buf, 5, 8) = <<255, 255, 255, 255>>
    /\ last.op = "Close"
    /\ last.err = NilError

C29_WitnessCounted ==
    /\ wstate = "open"
    /\ closed
    /\ Len(written) = 2
    /\ fileSize = I64(4 + 10 + 10)
    /\ Len(buf) = 12 + 20
    /\ SubSeq(buf, 5, 8) = <<24, 0, 0, 0>>
====
